---- MODULE Spec2Model ----
(***************************************************************************)
(* Hybrid (vector + full-text) search of SupabaseSemanticSearch:           *)
(* hybridSearch / hybridSearchDocuments, normalizeScores, and the store    *)
(* functions semantic_search, fulltext_search, hybrid_search and           *)
(* hybrid_search_documents they call.                                      *)
(*                                                                         *)
(* Scores are binary floating point numbers in the program (IEEE 754       *)
(* doubles in TypeScript, float8 in the store).  The model keeps the       *)
(* format and its round-to-nearest-even arithmetic with a significand of   *)
(* Precision bits: every sum, difference, product, quotient and square     *)
(* root is the exact result rounded to Precision significant bits.  A      *)
(* number m * 2^e (Half <= m < 2 * Half) is held as the integer            *)
(* (e + Bias) * Half + (m - Half) + 1, negated for a negative number, and  *)
(* 0 for zero: like the bit pattern of a double, the integers are in the   *)
(* order of the numbers they stand for.                                    *)
(***************************************************************************)
EXTENDS Integers, Sequences, FiniteSets, TLC

\* ------------------------------------------------------------------ bounds
MaxRows == 3
MaxTopK == 2
MaxScores == 3
MaxHits == 3
MaxCalls == 2
MaxFallbacks == 2
MaxTexts == 3
MaxBatchSize == 2
MaxDocs == 1
MaxWorkers == 2
MaxMsgs == 2

\* ------------------------------------------------------- number arithmetic
Precision == 5
Bias == 64
Half == 2 ^ (Precision - 1)

\* the result of 0 / 0
NaN == 2 ^ 30

Sign(x) == IF x < 0 THEN -1 ELSE 1

Abs(x) == IF x < 0 THEN -x ELSE x

\* significand and exponent of a number other than 0
Man(x) == ((Abs(x) - 1) % Half) + Half

Exp(x) == ((Abs(x) - 1) \div Half) - Bias

Pack(s, m, e) == IF e < -Bias THEN 0 ELSE s * ((e + Bias) * Half + (m - Half) + 1)

\* s * (num / den) * 2^e rounded to Precision bits, ties to even
RECURSIVE RoundQ(_, _, _, _)
RoundQ(s, num, den, e) ==
    IF num >= 2 * Half * den THEN RoundQ(s, num, 2 * den, e + 1)
    ELSE IF num < Half * den THEN RoundQ(s, 2 * num, den, e - 1)
    ELSE LET q == num \div den
             r == num % den
             up == 2 * r > den \/ (2 * r = den /\ q % 2 = 1)
             m == IF up THEN q + 1 ELSE q
         IN IF m = 2 * Half THEN Pack(s, Half, e + 1) ELSE Pack(s, m, e)

\* the number literal n / d
FromRatio(n, d) == IF n = 0 THEN 0 ELSE RoundQ(Sign(n), Abs(n), d, 0)

One == FromRatio(1, 1)

FMul(a, b) ==
    IF a = 0 \/ b = 0 THEN 0
    ELSE RoundQ(Sign(a) * Sign(b), Man(a) * Man(b), 1, Exp(a) + Exp(b))

FDiv(a, b) ==
    IF b = 0 THEN NaN
    ELSE IF a = 0 THEN 0
    ELSE RoundQ(Sign(a) * Sign(b), Man(a), Man(b), Exp(a) - Exp(b))

FAdd(a, b) ==
    IF a = 0 THEN b
    ELSE IF b = 0 THEN a
    ELSE IF Exp(a) - Exp(b) > Precision + 1 THEN a
    ELSE IF Exp(b) - Exp(a) > Precision + 1 THEN b
    ELSE LET e == IF Exp(a) <= Exp(b) THEN Exp(a) ELSE Exp(b)
             sum == Sign(a) * Man(a) * 2 ^ (Exp(a) - e) + Sign(b) * Man(b) * 2 ^ (Exp(b) - e)
         IN IF sum = 0 THEN 0 ELSE RoundQ(Sign(sum), Abs(sum), 1, e)

FSub(a, b) == FAdd(a, -b)

\* the r with r*r <= y < (r+1)*(r+1)
RECURSIVE SqrtBetween(_, _, _)
SqrtBetween(y, lo, hi) ==
    IF hi - lo <= 1 THEN lo
    ELSE LET mid == (lo + hi) \div 2
         IN IF mid * mid <= y THEN SqrtBetween(y, mid, hi) ELSE SqrtBetween(y, lo, mid)

\* Math.sqrt
FSqrt(x) ==
    IF x = 0 THEN 0
    ELSE LET odd == Exp(x) % 2 = 1
             e == IF odd THEN Exp(x) - 1 ELSE Exp(x)
             m == (IF odd THEN 2 * Man(x) ELSE Man(x)) * 4 ^ Precision
             r == SqrtBetween(m, 0, 2 ^ 15)
             sticky == IF r * r < m THEN 1 ELSE 0
         IN RoundQ(1, 2 * r + sticky, 2, (e \div 2) - Precision)

\* values.reduce((sum, v) => sum + v, 0)
RECURSIVE SeqSum(_)
SeqSum(s) == IF s = <<>> THEN 0 ELSE FAdd(SeqSum(SubSeq(s, 1, Len(s) - 1)), s[Len(s)])

RECURSIVE SeqMax(_)
SeqMax(s) == IF Len(s) = 1 THEN s[1]
             ELSE LET m == SeqMax(Tail(s)) IN IF s[1] >= m THEN s[1] ELSE m

RECURSIVE SeqMin(_)
SeqMin(s) == IF Len(s) = 1 THEN s[1]
             ELSE LET m == SeqMin(Tail(s)) IN IF s[1] <= m THEN s[1] ELSE m

SetMax(S) == CHOOSE m \in S : \A x \in S : x <= m

Range(s) == {s[i] : i \in 1..Len(s)}

Min2(a, b) == IF a <= b THEN a ELSE b

\* ------------------------------------------------------------ option sets
Normalizations == {"min-max", "z-score", "none"}
Methods == {"hybridSearch", "hybridSearchDocuments"}
Alphas == {0, FromRatio(3, 10)}
Betas == {0, FromRatio(7, 10)}
Thresholds == {0, FromRatio(1, 2)}
TopKs == 1..MaxTopK

NoError == "null"
UnknownError == "Unknown error occurred"
ThrownValues == {"EmbeddingProviderError", "non-Error value"}
StoreMessages == [semantic_search |-> "semantic_search failed",
                  fulltext_search |-> "fulltext_search failed",
                  hybrid_search |-> "hybrid_search failed",
                  hybrid_search_documents |-> "hybrid_search_documents failed"]
RejectReasons == [semantic_search |-> "semantic_search rejected",
                  fulltext_search |-> "fulltext_search rejected",
                  hybrid_search |-> "hybrid_search rejected",
                  hybrid_search_documents |-> "hybrid_search_documents rejected"]

\* ---------------------------------------------------------- the table rows
\* A row of the searched table, as the query sees it: whether its embedding
\* column is set and its cosine similarity to the query vector, and whether
\* its text matches the query and its ts_rank_cd score.  A row with neither
\* an embedding nor a match is returned by no store function and is left out.
RowKinds == << [emb |-> TRUE,  sim |-> FromRatio(1, 1),  match |-> FALSE, bm |-> 0],
               [emb |-> TRUE,  sim |-> FromRatio(1, 2),  match |-> FALSE, bm |-> 0],
               [emb |-> TRUE,  sim |-> FromRatio(7, 10), match |-> TRUE,  bm |-> FromRatio(1, 2)],
               [emb |-> TRUE,  sim |-> FromRatio(3, 10), match |-> TRUE,  bm |-> FromRatio(1, 1)],
               [emb |-> TRUE,  sim |-> -FromRatio(1, 2), match |-> FALSE, bm |-> 0],
               [emb |-> FALSE, sim |-> 0,                match |-> TRUE,  bm |-> FromRatio(7, 10)] >>

\* Tables of up to MaxRows rows.  The row's position is its identity (its
\* primary key); no store function depends on the physical order, so each
\* multiset of rows is listed once, in nondecreasing order of kind.
Tables == UNION {{t \in [1..n -> 1..Len(RowKinds)] :
                    \A i \in 1..n : \A j \in 1..n : i < j => t[i] <= t[j]} : n \in 0..MaxRows}

Row(t, i) == RowKinds[t[i]]

\* to_jsonb(t.*): the row as the store returns it
RowData(i) == [id |-> i]

\* --------------------------------------------------------- store functions
\* The orderings of the set S under "order by key desc": SQL leaves the order
\* of rows with equal keys open.
RECURSIVE Orderings(_, _)
Orderings(S, key) ==
    IF S = {} THEN {<<>>}
    ELSE UNION {{<<x>> \o rest : rest \in Orderings(S \ {x}, key)} :
                  x \in {y \in S : \A z \in S : key[y] >= key[z]}}

Limit(s, k) == SubSeq(s, 1, Min2(k, Len(s)))

semantic_search(t, k) ==
    LET S == {i \in 1..Len(t) : Row(t, i).emb}
        key == [i \in S |-> Row(t, i).sim]
    IN {Limit([j \in 1..Len(s) |-> [row_data |-> RowData(s[j]), similarity |-> Row(t, s[j]).sim]], k)
          : s \in Orderings(S, key)}

fulltext_search(t, k) ==
    LET S == {i \in 1..Len(t) : Row(t, i).match}
        key == [i \in S |-> Row(t, i).bm]
    IN {Limit([j \in 1..Len(s) |-> [row_data |-> RowData(s[j]), bm25_score |-> Row(t, s[j]).bm]], k)
          : s \in Orderings(S, key)}

hybrid_search(t, alpha, beta, k) ==
    LET vector_results == {i \in 1..Len(t) : Row(t, i).emb}
        fulltext_results == {i \in 1..Len(t) : Row(t, i).match}
        combined_results == vector_results \cup fulltext_results
        vector_score(i) == IF i \in vector_results THEN Row(t, i).sim ELSE 0
        bm25_score(i) == IF i \in fulltext_results THEN Row(t, i).bm ELSE 0
        max_vector == SetMax({vector_score(i) : i \in combined_results})
        max_bm25 == SetMax({bm25_score(i) : i \in combined_results})
        norm_vector_score(i) == IF max_vector > 0 THEN FDiv(vector_score(i), max_vector) ELSE 0
        norm_bm25_score(i) == IF max_bm25 > 0 THEN FDiv(bm25_score(i), max_bm25) ELSE 0
        hybrid_score(i) == FAdd(FMul(alpha, norm_bm25_score(i)), FMul(beta, norm_vector_score(i)))
        selected == {i \in combined_results : hybrid_score(i) > 0}
    IN {Limit([j \in 1..Len(s) |-> [row_data |-> RowData(s[j]),
                                    hybrid_score |-> hybrid_score(s[j]),
                                    bm25_score |-> bm25_score(s[j]),
                                    vector_score |-> vector_score(s[j])]], k)
          : s \in Orderings(selected, [i \in selected |-> hybrid_score(i)])}

hybrid_search_documents(t, alpha, beta, k) == hybrid_search(t, alpha, beta, k)

\* -------------------------------------------------------- normalizeScores
\* normalizeScores that divides by the maximum instead of min-max scaling
normalizeScoresMaxScaled(values, method) ==
    IF method = "none" \/ Len(values) = 0 THEN values
    ELSE LET maxValue == SeqMax(values)
         IN IF maxValue = 0 THEN [i \in 1..Len(values) |-> 0]
            ELSE [i \in 1..Len(values) |-> FDiv(values[i], maxValue)]

\* lines 776-780: the min-max branch
minMaxScores(values, minValue, range) ==
    IF range = 0 THEN [i \in 1..Len(values) |-> One]
    ELSE [i \in 1..Len(values) |-> FDiv(FSub(values[i], minValue), range)]

\* Math.pow(x, 2)
Pow2(x) == FMul(x, x)

\* lines 783-784: mean and variance of the values
meanOf(values) == FDiv(SeqSum(values), FromRatio(Len(values), 1))

varianceOf(values, mean) ==
    FDiv(SeqSum([i \in 1..Len(values) |-> Pow2(FSub(values[i], mean))]),
         FromRatio(Len(values), 1))

\* lines 786-787: the values around mean in units of stdDev
zScores(values, mean, stdDev) ==
    IF stdDev = 0 THEN [i \in 1..Len(values) |-> 0]
    ELSE [i \in 1..Len(values) |-> FDiv(FSub(values[i], mean), stdDev)]

\* lines 782-788: the z-score branch
zScoresAround(values, mean) == zScores(values, mean, FSqrt(varianceOf(values, mean)))

normalizeScores(values, method) ==
    IF method = "none" \/ Len(values) = 0 THEN values
    ELSE IF method = "min-max"
    THEN minMaxScores(values, SeqMin(values), FSub(SeqMax(values), SeqMin(values)))
    ELSE IF method = "z-score"
    THEN zScoresAround(values, meanOf(values))
    ELSE values

\* ----------------------------------------------- hybridSearch, client side
\* JSON.stringify(item.row_data) and JSON.parse(key)
JSONstringify(row_data) == <<"id", row_data.id>>

\* JSONparse that yields the first row whatever the key
JSONparseFirstRow(key) == [id |-> 1]

JSONparse(key) == [id |-> key[2]]

\* A Map filled by forEach + set from the first n items (scores[i] is the
\* score of items[i]): the keys in order of first insertion and the value
\* last written under each key.
\* MapOf whose first write under a key wins
RECURSIVE MapOfFirstWins(_, _, _)
MapOfFirstWins(items, scores, n) ==
    IF n = 0 THEN [keys |-> <<>>, val |-> <<>>]
    ELSE LET m == MapOfFirstWins(items, scores, n - 1)
             key == JSONstringify(items[n].row_data)
             entry == [score |-> scores[n], index |-> n - 1]
         IN IF key \in Range(m.keys)
            THEN m
            ELSE [keys |-> Append(m.keys, key), val |-> Append(m.val, entry)]

RECURSIVE MapOf(_, _, _)
MapOf(items, scores, n) ==
    IF n = 0 THEN [keys |-> <<>>, val |-> <<>>]
    ELSE LET m == MapOf(items, scores, n - 1)
             key == JSONstringify(items[n].row_data)
             entry == [score |-> scores[n], index |-> n - 1]
         IN IF key \in Range(m.keys)
            THEN [keys |-> m.keys,
                  val |-> [i \in 1..Len(m.keys) |-> IF m.keys[i] = key THEN entry ELSE m.val[i]]]
            ELSE [keys |-> Append(m.keys, key), val |-> Append(m.val, entry)]

Has(m, key) == key \in Range(m.keys)

Get(m, key) == m.val[CHOOSE i \in 1..Len(m.keys) : m.keys[i] = key]

\* SetOf that keeps every occurrence
SetOfKeepAll(s) == s

\* new Set([...a, ...b]): insertion order, duplicates dropped
RECURSIVE SetOf(_)
SetOf(s) ==
    IF s = <<>> THEN <<>>
    ELSE LET front == SetOf(SubSeq(s, 1, Len(s) - 1))
             last == s[Len(s)]
         IN IF last \in Range(front) THEN front ELSE Append(front, last)

OrZero(x) == IF x = 0 THEN 0 ELSE x

\* combinedResultsOf whose bm25Score is looked up in vectorMap
combinedResultsCrossed(vectorData, fulltextData) ==
    LET vectorMap == MapOf(vectorData, [i \in 1..Len(vectorData) |-> vectorData[i].similarity],
                           Len(vectorData))
        fulltextMap == MapOf(fulltextData, [i \in 1..Len(fulltextData) |-> fulltextData[i].bm25_score],
                             Len(fulltextData))
        allKeys == SetOf(vectorMap.keys \o fulltextMap.keys)
    IN [i \in 1..Len(allKeys) |->
          [data |-> JSONparse(allKeys[i]),
           vectorScore |-> IF Has(vectorMap, allKeys[i]) THEN OrZero(Get(vectorMap, allKeys[i]).score) ELSE 0,
           bm25Score |-> IF Has(vectorMap, allKeys[i]) THEN OrZero(Get(vectorMap, allKeys[i]).score) ELSE 0]]

combinedResultsOf(vectorData, fulltextData) ==
    LET vectorMap == MapOf(vectorData, [i \in 1..Len(vectorData) |-> vectorData[i].similarity],
                           Len(vectorData))
        fulltextMap == MapOf(fulltextData, [i \in 1..Len(fulltextData) |-> fulltextData[i].bm25_score],
                             Len(fulltextData))
        allKeys == SetOf(vectorMap.keys \o fulltextMap.keys)
    IN [i \in 1..Len(allKeys) |->
          [data |-> JSONparse(allKeys[i]),
           vectorScore |-> IF Has(vectorMap, allKeys[i]) THEN OrZero(Get(vectorMap, allKeys[i]).score) ELSE 0,
           bm25Score |-> IF Has(fulltextMap, allKeys[i]) THEN OrZero(Get(fulltextMap, allKeys[i]).score) ELSE 0]]

\* lines 924-928: the two score columns and their normalization
vectorScoresOf(combinedResults) ==
    [i \in 1..Len(combinedResults) |-> combinedResults[i].vectorScore]

bm25ScoresOf(combinedResults) ==
    [i \in 1..Len(combinedResults) |-> combinedResults[i].bm25Score]

\* normalizedVectorScoresOf that normalizes the two columns as one list
normalizedVectorScoresJoint(combinedResults, normalization) ==
    SubSeq(normalizeScores(vectorScoresOf(combinedResults) \o bm25ScoresOf(combinedResults),
                           normalization),
           1, Len(combinedResults))

normalizedVectorScoresOf(combinedResults, normalization) ==
    normalizeScores(vectorScoresOf(combinedResults), normalization)

normalizedBm25ScoresOf(combinedResults, normalization) ==
    normalizeScores(bm25ScoresOf(combinedResults), normalization)

\* hybridResultsOf with the two weights exchanged
hybridResultsSwapped(combinedResults, alpha, beta, normalization) ==
    LET normalizedVectorScores == normalizedVectorScoresOf(combinedResults, normalization)
        normalizedBm25Scores == normalizedBm25ScoresOf(combinedResults, normalization)
    IN [index \in 1..Len(combinedResults) |->
          [row_data |-> combinedResults[index].data,
           hybrid_score |-> FAdd(FMul(beta, normalizedBm25Scores[index]),
                                 FMul(alpha, normalizedVectorScores[index])),
           bm25_score |-> combinedResults[index].bm25Score,
           vector_score |-> combinedResults[index].vectorScore]]

hybridResultsOf(combinedResults, alpha, beta, normalization) ==
    LET normalizedVectorScores == normalizedVectorScoresOf(combinedResults, normalization)
        normalizedBm25Scores == normalizedBm25ScoresOf(combinedResults, normalization)
    IN [index \in 1..Len(combinedResults) |->
          [row_data |-> combinedResults[index].data,
           hybrid_score |-> FAdd(FMul(alpha, normalizedBm25Scores[index]),
                                 FMul(beta, normalizedVectorScores[index])),
           bm25_score |-> combinedResults[index].bm25Score,
           vector_score |-> combinedResults[index].vectorScore]]

\* Array.prototype.filter with item.hybrid_score >= threshold
RECURSIVE filterThreshold(_, _)
filterThreshold(items, threshold) ==
    IF items = <<>> THEN <<>>
    ELSE IF Head(items).hybrid_score >= threshold
         THEN <<Head(items)>> \o filterThreshold(Tail(items), threshold)
         ELSE filterThreshold(Tail(items), threshold)

\* Array.prototype.sort((a, b) => b.hybrid_score - a.hybrid_score): stable,
\* descending by hybrid_score
\* InsertDesc of a sort that is not stable: an item goes in front of the
\* items of equal score
RECURSIVE InsertDescUnstable(_, _)
InsertDescUnstable(sorted, x) ==
    IF sorted = <<>> THEN <<x>>
    ELSE IF Head(sorted).hybrid_score > x.hybrid_score
         THEN <<Head(sorted)>> \o InsertDescUnstable(Tail(sorted), x)
         ELSE <<x>> \o sorted

RECURSIVE InsertDesc(_, _)
InsertDesc(sorted, x) ==
    IF sorted = <<>> THEN <<x>>
    ELSE IF Head(sorted).hybrid_score >= x.hybrid_score
         THEN <<Head(sorted)>> \o InsertDesc(Tail(sorted), x)
         ELSE <<x>> \o sorted

\* sortDesc of a comparator that sorts ascending
RECURSIVE sortAscending(_)
sortAscending(items) ==
    IF items = <<>> THEN <<>>
    ELSE LET rest == sortAscending(SubSeq(items, 1, Len(items) - 1))
             x == items[Len(items)]
             NotAbove(e) == e.hybrid_score <= x.hybrid_score
             Above(e) == e.hybrid_score > x.hybrid_score
         IN SelectSeq(rest, NotAbove) \o <<x>> \o SelectSeq(rest, Above)

RECURSIVE sortDesc(_)
sortDesc(items) ==
    IF items = <<>> THEN <<>>
    ELSE InsertDesc(sortDesc(SubSeq(items, 1, Len(items) - 1)), items[Len(items)])

slice(items, n) == SubSeq(items, 1, Min2(n, Len(items)))

\* lines 938-942: filter, sort, slice of the client-side path
clientFiltered(hybridResults, threshold, topK) ==
    slice(sortDesc(filterThreshold(hybridResults, threshold)), topK)

\* storeFiltered without its slice(0, topK)
storeFilteredNoSlice(data, threshold, topK) ==
    filterThreshold(data, threshold)

\* lines 855-864 and 1004-1015: map, filter, slice of the store-side paths
storeFiltered(data, threshold, topK) ==
    slice(filterThreshold(data, threshold), topK)

\* ------------------------------------------------------------------ state
VARIABLES
    table,      \* the rows of the searched table
    pc,         \* where the call is: "idle", "embed", "store", "dual", "done"
    opts,       \* the call: method, topK, alpha, beta, normalization, threshold
    embedSt,    \* aiClient.embed of the call: "none", "pending", "ok", "failed"
    rpcLog,     \* the supabase.rpc requests issued by the call, in order
    hq,         \* the combined query (hybrid_search / hybrid_search_documents)
    vq,         \* the semantic_search query
    lq,         \* the fulltext_search query
    combined,   \* combinedResults of the client-side path
    result,     \* what the call's promise settled with
    firstFailed, \* which of the two parallel queries failed first, if any
    ns          \* a call of normalizeScores: its arguments and what it returned

\* the AIClient of the instance and the calls made on it
VARIABLES
    primaryProvider,    \* AIClient.primaryProvider
    fallbackProviders,  \* AIClient.fallbackProviders
    config,             \* AIClient.config: enableFallback
    calls               \* the calls in progress, each with its local variables

gatewayVars == <<primaryProvider, fallbackProviders, config, calls>>

\* the registered table, the queue embedding_jobs, the table
\* embedding_job_log and the invocations of the embed worker
VARIABLES
    docs,       \* the rows of the registered table: content and embedding
    queue,      \* pgmq.q_embedding_jobs
    jobLog,     \* embedding_job_log
    workers,    \* the invocations of the edge function
    nextMsgId,  \* the sequence of msg_id
    deployed    \* which version of the edge function serves the requests

workerVars == <<docs, queue, jobLog, workers, nextMsgId, deployed>>

searchVars == <<table, pc, opts, embedSt, rpcLog, hq, vq, lq, combined, result, firstFailed, ns>>

vars == <<table, pc, opts, embedSt, rpcLog, hq, vq, lq, combined, result, firstFailed, ns,
          primaryProvider, fallbackProviders, config, calls,
          docs, queue, jobLog, workers, nextMsgId, deployed>>

\* ---------------------------------------------------- AIClient: its state
\* the providers createProvider can build that call an embedding API
Providers == {"openai", "cohere"}

\* config.enableFallback as given to the constructor
EnableFallbackValues == {"true", "false", "undefined"}

CallIds == 1..MaxCalls

\* a call that has not been made
NoCall == [op |-> "none", pc |-> "idle", texts |-> 0, providers |-> <<>>, i |-> 0,
           requests |-> <<>>, tried |-> <<>>, embeds |-> 0, embedding |-> <<>>,
           out |-> [kind |-> "pending", hasData |-> FALSE, data |-> <<>>, error |-> "null"]]

\* an AIClient nobody calls
GatewayIdle ==
    /\ primaryProvider = "openai"
    /\ fallbackProviders = <<>>
    /\ config = [enableFallback |-> "undefined"]
    /\ calls = [c \in CallIds |-> NoCall]

\* -------------------------------------------------- embed worker: its state
DocIds == 1..MaxDocs

WorkerIds == 1..MaxWorkers

MsgIds == 1..MaxMsgs

\* the two versions of the embed-worker edge function in the repository:
\* "basic" processes every job it reads, "validating" checks the text first
\* and writes the job log
WorkerVersions == {"basic", "validating"}

\* the longest text the validating worker accepts
MaxTextLength == 50000

\* the default of retry_failed_jobs(max_retries)
max_retries == 3

\* a payload field that is absent or null
Undefined == [type |-> "undefined", id |-> "undefined", length |-> 0, trimLength |-> 0]

\* a string is represented by its identity, its length and the length of
\* what trim() leaves
String(id, length, trimLength) ==
    [type |-> "string", id |-> id, length |-> length, trimLength |-> trimLength]

\* the contents a row is given: two ordinary texts (the second of the
\* greatest accepted length), the empty string, blanks only, and a text of
\* one character too many
Contents ==
    { String("a", 5, 5),
      String("b", MaxTextLength, MaxTextLength),
      String("", 0, 0),
      String("   ", 3, 0),
      String("long", MaxTextLength + 1, MaxTextLength + 1) }

NoEmbedding == <<>>

NoDoc == [exists |-> FALSE, content |-> Undefined, embedding |-> NoEmbedding]

NoJob == [msg_id |-> 0, row_id |-> 0, new_text |-> Undefined]

NoWorker == [pc |-> "idle", job |-> NoJob, embedding |-> NoEmbedding]

\* no row, no job, no invocation
WorkerIdle ==
    /\ docs = [d \in DocIds |-> NoDoc]
    /\ queue = {}
    /\ jobLog = {}
    /\ workers = [w \in WorkerIds |-> NoWorker]
    /\ nextMsgId = 1
    /\ deployed = "basic"

NoQuery == [st |-> "none", data |-> <<>>]
InFlight == [st |-> "inflight", data |-> <<>>]
Pending == [kind |-> "pending", hasData |-> FALSE, data |-> <<>>, error |-> NoError]
NoNorm == [values |-> <<>>, method |-> "none", returned |-> FALSE, out |-> <<>>]
NoOpts == [method |-> "none", topK |-> 1, alpha |-> 0, beta |-> 0,
           normalization |-> "none", threshold |-> 0]

Init ==
    /\ GatewayIdle
    /\ WorkerIdle
    /\ table \in Tables
    /\ pc = "idle"
    /\ opts = NoOpts
    /\ embedSt = "none"
    /\ rpcLog = <<>>
    /\ hq = NoQuery
    /\ vq = NoQuery
    /\ lq = NoQuery
    /\ combined = <<>>
    /\ result = Pending
    /\ firstFailed = "none"
    /\ ns = NoNorm

\* ReturnData that returns { data: null, error: null } for an empty list
ReturnDataOrNull(data) ==
    [kind |-> "returned", hasData |-> data # <<>>, data |-> data, error |-> NoError]

\* return { data: ..., error: null }
ReturnData(data) == [kind |-> "returned", hasData |-> TRUE, data |-> data, error |-> NoError]

\* return { data: null, error: new Error(error.message) }
ReturnError(message) == [kind |-> "returned", hasData |-> FALSE, data |-> <<>>, error |-> message]

\* Catch of a handler that lets the exception escape
CatchRethrow(thrown) ==
    [kind |-> "threw", hasData |-> FALSE, data |-> <<>>, error |-> thrown]

\* catch (error) { return { data: null, error: error instanceof Error ? error : new Error(...) } }
Catch(thrown) ==
    ReturnError(IF thrown = "non-Error value" THEN UnknownError ELSE thrown)

\* hybridSearch / hybridSearchDocuments up to the await of aiClient.embed
Call ==
    /\ pc = "idle"
    /\ \E m \in Methods, k \in TopKs, a \in Alphas, b \in Betas,
          n \in Normalizations, th \in Thresholds :
          opts' = [method |-> m, topK |-> k, alpha |-> a, beta |-> b,
                   normalization |-> n, threshold |-> th]
    /\ pc' = "embed"
    /\ embedSt' = "pending"
    /\ UNCHANGED <<gatewayVars, workerVars, ns, firstFailed, table, rpcLog, hq, vq, lq, combined, result>>

\* which queries the call issues once it has the query embedding
\* usesStore of a dispatch that takes the store-side path for every method
usesStoreAlways(o) == o.method \in Methods

usesStore(o) == o.method = "hybridSearchDocuments" \/ o.normalization = "min-max"

storeRequest(o) ==
    [fn |-> IF o.method = "hybridSearchDocuments" THEN "hybrid_search_documents" ELSE "hybrid_search",
     k |-> o.topK * 2]

dualRequests(o) ==
    << [fn |-> "semantic_search", k |-> o.topK * 2],
       [fn |-> "fulltext_search", k |-> o.topK * 2] >>

\* aiClient.embed resolved: the queries are issued
EmbedResolve ==
    /\ pc = "embed"
    /\ embedSt' = "ok"
    /\ IF usesStore(opts)
       THEN /\ rpcLog' = Append(rpcLog, storeRequest(opts))
            /\ hq' = InFlight
            /\ pc' = "store"
            /\ UNCHANGED <<vq, lq>>
       ELSE /\ rpcLog' = rpcLog \o dualRequests(opts)
            /\ vq' = InFlight
            /\ lq' = InFlight
            /\ pc' = "dual"
            /\ UNCHANGED hq
    /\ UNCHANGED <<gatewayVars, workerVars, ns, firstFailed, table, opts, combined, result>>

\* EmbedReject of a handler that goes on with the lexical query alone
EmbedRejectThenLexical ==
    /\ pc = "embed"
    /\ embedSt' = "failed"
    /\ rpcLog' = Append(rpcLog, [fn |-> "fulltext_search", k |-> opts.topK * 2])
    /\ lq' = InFlight
    /\ pc' = "dual"
    /\ UNCHANGED <<gatewayVars, workerVars, ns, firstFailed, table, opts, hq, vq, combined, result>>

\* aiClient.embed rejected: the catch block returns
EmbedReject ==
    /\ pc = "embed"
    /\ \E e \in ThrownValues :
          /\ embedSt' = "failed"
          /\ result' = Catch(e)
          /\ pc' = "done"
    /\ UNCHANGED <<gatewayVars, workerVars, ns, firstFailed, table, opts, rpcLog, hq, vq, lq, combined>>

\* the combined query answered with rows: map, filter, slice, return
StoreOk ==
    /\ pc = "store"
    /\ hq.st = "inflight"
    /\ \E data \in (IF opts.method = "hybridSearchDocuments"
                    THEN hybrid_search_documents(table, opts.alpha, opts.beta, rpcLog[1].k)
                    ELSE hybrid_search(table, opts.alpha, opts.beta, rpcLog[1].k)) :
          /\ hq' = [st |-> "ok", data |-> data]
          /\ result' = ReturnData(storeFiltered(data, opts.threshold, opts.topK))
    /\ pc' = "done"
    /\ UNCHANGED <<gatewayVars, workerVars, ns, firstFailed, table, opts, embedSt, rpcLog, vq, lq, combined>>

\* the combined query answered with { data: null, error: null }
StoreNull ==
    /\ pc = "store"
    /\ hq.st = "inflight"
    /\ hq' = [st |-> "null", data |-> <<>>]
    /\ result' = ReturnData(storeFiltered(<<>>, opts.threshold, opts.topK))
    /\ pc' = "done"
    /\ UNCHANGED <<gatewayVars, workerVars, ns, firstFailed, table, opts, embedSt, rpcLog, vq, lq, combined>>

\* the combined query answered with { error }
StoreError ==
    /\ pc = "store"
    /\ hq.st = "inflight"
    /\ hq' = [st |-> "err", data |-> <<>>]
    /\ result' = ReturnError(StoreMessages[rpcLog[1].fn])
    /\ pc' = "done"
    /\ UNCHANGED <<gatewayVars, workerVars, ns, firstFailed, table, opts, embedSt, rpcLog, vq, lq, combined>>

\* the combined query's promise rejected
StoreReject ==
    /\ pc = "store"
    /\ hq.st = "inflight"
    /\ hq' = [st |-> "thrown", data |-> <<>>]
    /\ result' = Catch(RejectReasons[rpcLog[1].fn])
    /\ pc' = "done"
    /\ UNCHANGED <<gatewayVars, workerVars, ns, firstFailed, table, opts, embedSt, rpcLog, vq, lq, combined>>

\* a fulfilled query: { data, error: null }, { data: null, error: null } or
\* { data: null, error }
Fulfilled(q) == q.st \in {"ok", "null", "err"}

\* a failed query: fulfilled with { error }, or rejected
Failure(q) == q.st \in {"err", "thrown"}

\* AfterPromiseAll without the check of vectorResults.error
AfterPromiseAllNoVectorCheck(vectorResults, fulltextResults, o) ==
    IF fulltextResults.st = "err"
    THEN [combined |-> <<>>, result |-> ReturnError(StoreMessages["fulltext_search"])]
    ELSE LET combinedResults == combinedResultsOf(vectorResults.data, fulltextResults.data)
         IN [combined |-> combinedResults,
             result |-> ReturnData(clientFiltered(
                            hybridResultsOf(combinedResults, o.alpha, o.beta, o.normalization),
                            o.threshold, o.topK))]

\* lines 884-944: what follows the await of Promise.all once both queries
\* are fulfilled
AfterPromiseAll(vectorResults, fulltextResults, o) ==
    IF vectorResults.st = "err"
    THEN [combined |-> <<>>, result |-> ReturnError(StoreMessages["semantic_search"])]
    ELSE IF fulltextResults.st = "err"
    THEN [combined |-> <<>>, result |-> ReturnError(StoreMessages["fulltext_search"])]
    ELSE LET combinedResults == combinedResultsOf(vectorResults.data, fulltextResults.data)
         IN [combined |-> combinedResults,
             result |-> ReturnData(clientFiltered(
                            hybridResultsOf(combinedResults, o.alpha, o.beta, o.normalization),
                            o.threshold, o.topK))]

\* One of the two queries of Promise.all settles with newV / newL.  A
\* rejection rejects Promise.all at once; the handler goes on when both are
\* fulfilled; a query that settles after the call returned changes nothing.
Settle(newV, newL) ==
    /\ vq' = newV
    /\ lq' = newL
    /\ IF pc = "dual" /\ (newV.st = "thrown" \/ newL.st = "thrown")
       THEN /\ result' = Catch(IF newV.st = "thrown" /\ vq.st # "thrown"
                                 THEN RejectReasons["semantic_search"]
                                 ELSE RejectReasons["fulltext_search"])
            /\ pc' = "done"
            /\ UNCHANGED combined
       ELSE IF pc = "dual" /\ Fulfilled(newV) /\ Fulfilled(newL)
       THEN \E r \in {AfterPromiseAll(newV, newL, opts)} :
               /\ result' = r.result
               /\ combined' = r.combined
               /\ pc' = "done"
       ELSE UNCHANGED <<pc, combined, result>>
    /\ firstFailed' = IF pc = "dual" /\ firstFailed = "none" /\ Failure(newV) /\ ~Failure(vq)
                     THEN "vector"
                     ELSE IF pc = "dual" /\ firstFailed = "none" /\ Failure(newL) /\ ~Failure(lq)
                     THEN "lexical"
                     ELSE firstFailed
    /\ UNCHANGED <<gatewayVars, workerVars, ns, table, opts, embedSt, rpcLog, hq>>

VectorOk ==
    /\ vq.st = "inflight"
    /\ \E data \in semantic_search(table, rpcLog[1].k) : Settle([st |-> "ok", data |-> data], lq)

VectorNull ==
    /\ vq.st = "inflight"
    /\ Settle([st |-> "null", data |-> <<>>], lq)

VectorError ==
    /\ vq.st = "inflight"
    /\ Settle([st |-> "err", data |-> <<>>], lq)

VectorReject ==
    /\ vq.st = "inflight"
    /\ Settle([st |-> "thrown", data |-> <<>>], lq)

LexicalOk ==
    /\ lq.st = "inflight"
    /\ \E data \in fulltext_search(table, rpcLog[2].k) : Settle(vq, [st |-> "ok", data |-> data])

LexicalNull ==
    /\ lq.st = "inflight"
    /\ Settle(vq, [st |-> "null", data |-> <<>>])

LexicalError ==
    /\ lq.st = "inflight"
    /\ Settle(vq, [st |-> "err", data |-> <<>>])

LexicalReject ==
    /\ lq.st = "inflight"
    /\ Settle(vq, [st |-> "thrown", data |-> <<>>])

Next ==
    \/ Call
    \/ EmbedResolve
    \/ EmbedReject
    \/ StoreOk
    \/ StoreNull
    \/ StoreError
    \/ StoreReject
    \/ VectorOk
    \/ VectorNull
    \/ VectorError
    \/ VectorReject
    \/ LexicalOk
    \/ LexicalNull
    \/ LexicalError
    \/ LexicalReject

Spec == Init /\ [][Next]_vars

\* ------------------------------------------------- the merge on its own
\* The client-side merge is a function of the two hit lists the queries
\* answer with: here they are drawn from every list of up to MaxHits hits,
\* lists that name one row more than once included.
HitIds == {1, 2}

HitScores == {FromRatio(1, 2), One}

VectorHits == {[row_data |-> RowData(i), similarity |-> x] : i \in HitIds, x \in HitScores}

LexicalHits == {[row_data |-> RowData(i), bm25_score |-> x] : i \in HitIds, x \in HitScores}

VectorHitLists == UNION {[1..n -> VectorHits] : n \in 0..MaxHits}

LexicalHitLists == UNION {[1..n -> LexicalHits] : n \in 0..MaxHits}

\* hybridSearch at the await of Promise.all (line 870)
MergeInit ==
    /\ GatewayIdle
    /\ WorkerIdle
    /\ table = <<>>
    /\ pc = "dual"
    /\ \E k \in TopKs :
          opts = [method |-> "hybridSearch", topK |-> k, alpha |-> FromRatio(3, 10),
                  beta |-> FromRatio(7, 10), normalization |-> "none", threshold |-> 0]
    /\ embedSt = "ok"
    /\ rpcLog = dualRequests(opts)
    /\ hq = NoQuery
    /\ vq = InFlight
    /\ lq = InFlight
    /\ combined = <<>>
    /\ result = Pending
    /\ firstFailed = "none"
    /\ ns = NoNorm

VectorAnswers ==
    /\ vq.st = "inflight"
    /\ \E data \in VectorHitLists : Settle([st |-> "ok", data |-> data], lq)

LexicalAnswers ==
    /\ lq.st = "inflight"
    /\ \E data \in LexicalHitLists : Settle(vq, [st |-> "ok", data |-> data])

MergeNext ==
    \/ VectorAnswers
    \/ LexicalAnswers

MergeSpec == MergeInit /\ [][MergeNext]_vars

\* ------------------------------------------------ normalizeScores on its own
\* normalizeScores is a pure function of (values, method): its arguments are
\* drawn from every score list of up to MaxScores numbers.
ScoreValues ==
    {0, FromRatio(1, 10), FromRatio(3, 10), FromRatio(1, 2), FromRatio(7, 10), One}

ScoreLists == UNION {[1..n -> ScoreValues] : n \in 0..MaxScores}

NormInit ==
    /\ GatewayIdle
    /\ WorkerIdle
    /\ table = <<>>
    /\ pc = "idle"
    /\ opts = NoOpts
    /\ embedSt = "none"
    /\ rpcLog = <<>>
    /\ hq = NoQuery
    /\ vq = NoQuery
    /\ lq = NoQuery
    /\ combined = <<>>
    /\ result = Pending
    /\ firstFailed = "none"
    /\ \E values \in ScoreLists, method \in Normalizations :
          ns = [values |-> values, method |-> method, returned |-> FALSE, out |-> <<>>]

\* lines 767-793: one call of normalizeScores(values, method)
NormCall ==
    /\ ~ns.returned
    /\ ns' = [ns EXCEPT !.returned = TRUE, !.out = normalizeScores(ns.values, ns.method)]
    /\ UNCHANGED <<gatewayVars, workerVars, table, pc, opts, embedSt, rpcLog, hq, vq, lq,
                 combined, result, firstFailed>>

NormNext == NormCall

NormSpec == NormInit /\ [][NormNext]_vars

\* ----------------------------------------------------------------- claims
Returned == pc = "done" /\ result.kind = "returned"
Succeeded == Returned /\ result.hasData
StorePath == opts.method = "hybridSearch" /\ opts.normalization = "min-max"
ClientPath == opts.method = "hybridSearch" /\ opts.normalization # "min-max"
Ids(items) == {items[i].row_data.id : i \in 1..Len(items)}
Failed(q) == q.st \in {"err", "thrown"}

\* The result lists the client-side computation (merge, normalize, weight,
\* filter, sort, slice) yields over the same rows with the options o.
ClientSideResults(t, o) ==
    {clientFiltered(hybridResultsOf(combinedResultsOf(v, l), o.alpha, o.beta, o.normalization),
                    o.threshold, o.topK)
       : v \in semantic_search(t, o.topK * 2), l \in fulltext_search(t, o.topK * 2)}

\* C1: with normalization 'min-max', the list hybridSearch returns through
\* the store-side path (hybrid_search, then the client's threshold and topK
\* cut) is a list the client-side computation yields over the same rows and
\* options: same identities, same order, same scores.
C1_PathEquivalence ==
    (Succeeded /\ StorePath) => result.data \in ClientSideResults(table, opts)

\* C2: a successful hybridSearch (either path) or hybridSearchDocuments
\* returns no item with hybrid_score < threshold and at most topK items.
C2_ThresholdAndTopK ==
    Succeeded =>
        /\ Len(result.data) <= opts.topK
        /\ \A i \in 1..Len(result.data) : result.data[i].hybrid_score >= opts.threshold

\* C2 witness: hybridSearchDocuments returned exactly topK items after the
\* store sent more than topK rows, one of them under the threshold.
C2_Witness ==
    /\ Succeeded
    /\ opts.method = "hybridSearchDocuments"
    /\ Len(result.data) = opts.topK
    /\ Len(hq.data) > opts.topK
    /\ \E i \in 1..Len(hq.data) : hq.data[i].hybrid_score < opts.threshold

\* position of the candidate of row_data rd in combinedResults
MergeIndex(rd) == CHOOSE i \in 1..Len(combined) : combined[i].data = rd

\* C3: the list hybridSearch returns is in descending order of hybrid_score
\* in both paths, and in the client-side path two results of equal
\* hybrid_score keep the order their candidates have in the merge.
C3_SortedStable ==
    (Succeeded /\ opts.method = "hybridSearch") =>
        \A i \in 1..Len(result.data) : \A j \in 1..Len(result.data) :
            i < j =>
                /\ result.data[i].hybrid_score >= result.data[j].hybrid_score
                /\ (ClientPath /\ result.data[i].hybrid_score = result.data[j].hybrid_score)
                      => MergeIndex(result.data[i].row_data) < MergeIndex(result.data[j].row_data)

\* C3 witness: the client-side path returned two results of equal score in
\* their merge order, after the sort moved them in front of the first merged
\* candidate, which the topK cut then dropped.
C3_Witness ==
    /\ Succeeded /\ ClientPath
    /\ opts.threshold = 0
    /\ Len(result.data) = 2
    /\ result.data[1].hybrid_score = result.data[2].hybrid_score
    /\ Len(combined) = 3
    /\ combined[1].data.id \notin Ids(result.data)

\* C4: with 'min-max' hybridSearch issues exactly one hybrid_search query
\* and no vector or lexical query; with any other method exactly one
\* semantic_search and one fulltext_search query, each for topK * 2 rows,
\* and no combined query.  (No query is issued before the embedding call
\* has resolved.)
C4_Dispatch ==
    opts.method = "hybridSearch" =>
        IF embedSt # "ok" THEN rpcLog = <<>>
        ELSE IF opts.normalization = "min-max"
        THEN /\ Len(rpcLog) = 1
             /\ rpcLog[1].fn = "hybrid_search"
        ELSE /\ Len(rpcLog) = 2
             /\ {rpcLog[1].fn, rpcLog[2].fn} = {"semantic_search", "fulltext_search"}
             /\ rpcLog[1].k = opts.topK * 2
             /\ rpcLog[2].k = opts.topK * 2

\* C4 witness: a 'z-score' call returned after its two queries
C4_Witness ==
    /\ Succeeded /\ opts.method = "hybridSearch" /\ opts.normalization = "z-score"
    /\ Len(rpcLog) = 2 /\ vq.st = "ok" /\ lq.st = "ok"

Issued(fn) == \E i \in 1..Len(rpcLog) : rpcLog[i].fn = fn

\* C5 as stated: once the vector query has failed, the call has issued no
\* lexical query.
C5_NoLexicalAfterVectorFailure ==
    Failed(vq) => ~Issued("fulltext_search")

\* C5 as amended: the lexical query is issued together with the vector
\* query, before either completes; when the vector query has failed the
\* call returns an error with data null and merges nothing.
C5_VectorFailureSurfaced ==
    /\ Issued("semantic_search") <=> Issued("fulltext_search")
    /\ (vq.st = "inflight" \/ lq.st = "inflight") => Issued("fulltext_search")
    /\ (pc = "done" /\ ClientPath /\ Failed(vq)) =>
          /\ result.kind = "returned"
          /\ ~result.hasData
          /\ result.error # NoError
          /\ combined = <<>>

\* C5 witness: the vector query failed, the lexical query came back with
\* hits, and the call returned the vector query's error.
C5_Witness ==
    /\ pc = "done" /\ ClientPath
    /\ vq.st = "err"
    /\ lq.st = "ok" /\ Len(lq.data) > 0
    /\ result.error = StoreMessages["semantic_search"]

\* C6: when the embedding call of hybridSearch or hybridSearchDocuments
\* fails, the call issues no store query (combined, vector or lexical) and
\* returns an error.
C6_EmbedFailureNoQueries ==
    embedSt = "failed" =>
        /\ rpcLog = <<>>
        /\ hq = NoQuery /\ vq = NoQuery /\ lq = NoQuery
        /\ Returned
        /\ ~result.hasData
        /\ result.error # NoError

\* C6 witness: hybridSearchDocuments returned the provider's error
C6_Witness ==
    /\ embedSt = "failed"
    /\ opts.method = "hybridSearchDocuments"
    /\ result.error = "EmbeddingProviderError"

AnyFailure == embedSt = "failed" \/ Failed(hq) \/ Failed(vq) \/ Failed(lq)

\* C7: hybridSearch never throws and returns exactly one of a list and an
\* error: {data: null, error} when the embedding call or a store query of
\* the call failed, {data: list, error: null} otherwise.
C7_ListOrError ==
    /\ result.kind # "threw"
    /\ (pc = "done" /\ opts.method = "hybridSearch") =>
          /\ result.kind = "returned"
          /\ result.hasData <=> result.error = NoError
          /\ AnyFailure => ~result.hasData
          /\ ~AnyFailure => result.hasData

\* C7 witness: the vector query brought hits, the lexical query failed, and
\* the call returned an error and no list.
C7_Witness ==
    /\ pc = "done" /\ ClientPath
    /\ vq.st = "ok" /\ Len(vq.data) > 0
    /\ lq.st = "err"
    /\ ~result.hasData
    /\ result.error = StoreMessages["fulltext_search"]

VectorColumn == [i \in 1..Len(combined) |-> combined[i].vectorScore]
LexicalColumn == [i \in 1..Len(combined) |-> combined[i].bm25Score]

\* C8: in the client-side path every returned hybrid_score is
\* alpha * normalizedLexical + beta * normalizedVector, each column
\* normalized with the caller's method over all merged candidates.
C8_HybridScore ==
    (Succeeded /\ ClientPath) =>
        \A r \in 1..Len(result.data) :
            LET i == MergeIndex(result.data[r].row_data)
            IN result.data[r].hybrid_score =
                   FAdd(FMul(opts.alpha, normalizeScores(LexicalColumn, opts.normalization)[i]),
                        FMul(opts.beta, normalizeScores(VectorColumn, opts.normalization)[i]))

\* C8 witness: a 'z-score' call with both weights positive returned a
\* result with both raw scores positive, fewer results than candidates.
C8_Witness ==
    /\ Succeeded /\ ClientPath /\ opts.normalization = "z-score"
    /\ opts.alpha > 0 /\ opts.beta > 0
    /\ Len(result.data) < Len(combined)
    /\ \E r \in 1..Len(result.data) :
          result.data[r].bm25_score > 0 /\ result.data[r].vector_score > 0

CandidateIds == {combined[i].data.id : i \in 1..Len(combined)}

\* C9: the merge yields exactly one candidate per distinct identity of the
\* two hit lists: as many candidates as the union of their identities has
\* members, and no candidate for an identity in neither list.
C9_MergeUnion ==
    (Succeeded /\ ClientPath) =>
        /\ Len(combined) = Cardinality(Ids(vq.data) \cup Ids(lq.data))
        /\ CandidateIds = Ids(vq.data) \cup Ids(lq.data)

\* C9 witness: the hit lists share an identity and each has one of its own
C9_Witness ==
    /\ Succeeded /\ ClientPath
    /\ Ids(vq.data) \cap Ids(lq.data) # {}
    /\ Ids(vq.data) \ Ids(lq.data) # {}
    /\ Ids(lq.data) \ Ids(vq.data) # {}

\* C10: a merged candidate's vector score is the identity's score in the
\* vector hits, 0 when it is not among them; its lexical score is the
\* identity's score in the lexical hits, 0 when it is not among them.
C10_MergedScores ==
    (Succeeded /\ ClientPath) =>
        \A i \in 1..Len(combined) :
            /\ \A j \in 1..Len(vq.data) :
                  vq.data[j].row_data = combined[i].data
                      => combined[i].vectorScore = vq.data[j].similarity
            /\ combined[i].data.id \notin Ids(vq.data) => combined[i].vectorScore = 0
            /\ \A j \in 1..Len(lq.data) :
                  lq.data[j].row_data = combined[i].data
                      => combined[i].bm25Score = lq.data[j].bm25_score
            /\ combined[i].data.id \notin Ids(lq.data) => combined[i].bm25Score = 0

\* C10 witness: one candidate from the lexical hits only, one from the
\* vector hits only, one from both
C10_Witness ==
    /\ Succeeded /\ ClientPath
    /\ \E i \in 1..Len(combined) : combined[i].vectorScore = 0 /\ combined[i].bm25Score > 0
    /\ \E i \in 1..Len(combined) : combined[i].vectorScore > 0 /\ combined[i].bm25Score = 0
    /\ \E i \in 1..Len(combined) : combined[i].vectorScore > 0 /\ combined[i].bm25Score > 0

\* C12: under min-max, a score list with at least two distinct values is
\* mapped to a list of the same length and order whose values all lie in
\* [0, 1], every minimum becoming exactly 0 and every maximum exactly 1.
DistinctValues(values) == Cardinality(Range(values)) >= 2

C12_MinMaxRange ==
    (ns.returned /\ ns.method = "min-max" /\ DistinctValues(ns.values)) =>
        /\ Len(ns.out) = Len(ns.values)
        /\ \A i \in 1..Len(ns.values) :
              /\ ns.out[i] >= 0 /\ ns.out[i] <= One
              /\ ns.values[i] = SeqMin(ns.values) => ns.out[i] = 0
              /\ ns.values[i] = SeqMax(ns.values) => ns.out[i] = One
        /\ \A i, j \in 1..Len(ns.values) :
              ns.values[i] <= ns.values[j] => ns.out[i] <= ns.out[j]

C12_Witness ==
    /\ ns.returned /\ ns.method = "min-max"
    /\ Len(ns.values) = 3 /\ Cardinality(Range(ns.values)) = 3
    /\ \E i \in 1..3 : ns.out[i] > 0 /\ ns.out[i] < One

\* C13: a list of N >= 1 equal scores is mapped to all 1 by min-max and to
\* all 0 by z-score, and no output is NaN.
AllEqual(values) == Len(values) >= 1 /\ Cardinality(Range(values)) = 1

C13_AllEqual ==
    (ns.returned /\ AllEqual(ns.values)) =>
        /\ Len(ns.out) = Len(ns.values)
        /\ \A i \in 1..Len(ns.out) :
              /\ ns.out[i] # NaN
              /\ ns.method = "min-max" => ns.out[i] = One
              /\ ns.method = "z-score" => ns.out[i] = 0

\* C11: when a hit list names one row more than once, the merge does not
\* fail, the row is one candidate, and the candidate carries the score of
\* the row's last occurrence in that list.
LastOf(hits, row_data) ==
    CHOOSE i \in 1..Len(hits) :
        /\ hits[i].row_data = row_data
        /\ \A j \in 1..Len(hits) : hits[j].row_data = row_data => j <= i

C11_LastWriteWins ==
    (pc = "done" /\ vq.st = "ok" /\ lq.st = "ok") =>
        /\ result.kind = "returned" /\ result.hasData
        /\ \A i, j \in 1..Len(combined) : combined[i].data = combined[j].data => i = j
        /\ \A i \in 1..Len(vq.data) : \E c \in 1..Len(combined) :
              /\ combined[c].data = vq.data[i].row_data
              /\ combined[c].vectorScore = vq.data[LastOf(vq.data, vq.data[i].row_data)].similarity
        /\ \A i \in 1..Len(lq.data) : \E c \in 1..Len(combined) :
              /\ combined[c].data = lq.data[i].row_data
              /\ combined[c].bm25Score = lq.data[LastOf(lq.data, lq.data[i].row_data)].bm25_score

C11_Witness ==
    /\ pc = "done" /\ vq.st = "ok" /\ lq.st = "ok"
    /\ Len(vq.data) = 3
    /\ vq.data[1].row_data = vq.data[3].row_data
    /\ vq.data[1].similarity # vq.data[3].similarity
    /\ vq.data[2].row_data # vq.data[1].row_data
    /\ Len(combined) = 2
    /\ combined[1].vectorScore = vq.data[3].similarity

\* C14: the two score columns are normalized independently.  A second
\* client-side call whose candidates have the same vector scores and other
\* lexical scores has the same normalized vector scores, and a call with
\* the same lexical scores and other vector scores has the same normalized
\* lexical scores.
OtherColumns(n) ==
    {[i \in 1..n |-> IF i % 2 = 1 THEN One ELSE 0],
     [i \in 1..n |-> IF i = 1 THEN 0 ELSE FromRatio(i, 10)]}

WithBm25Scores(combinedResults, column) ==
    [i \in 1..Len(combinedResults) |-> [combinedResults[i] EXCEPT !.bm25Score = column[i]]]

WithVectorScores(combinedResults, column) ==
    [i \in 1..Len(combinedResults) |-> [combinedResults[i] EXCEPT !.vectorScore = column[i]]]

C14_ColumnsIndependent ==
    (pc = "done" /\ Len(rpcLog) = 2 /\ result.hasData) =>
        \A column \in OtherColumns(Len(combined)) :
            /\ normalizedVectorScoresOf(WithBm25Scores(combined, column), opts.normalization)
                  = normalizedVectorScoresOf(combined, opts.normalization)
            /\ normalizedBm25ScoresOf(WithVectorScores(combined, column), opts.normalization)
                  = normalizedBm25ScoresOf(combined, opts.normalization)

C14_Witness ==
    /\ pc = "done" /\ Len(rpcLog) = 2 /\ result.hasData
    /\ opts.normalization = "z-score"
    /\ Len(combined) = 3
    /\ \E i, j \in 1..3 :
          /\ combined[i].vectorScore # combined[j].vectorScore
          /\ combined[i].bm25Score # combined[j].bm25Score
          /\ normalizedVectorScoresOf(combined, opts.normalization)[i]
                # normalizedBm25ScoresOf(combined, opts.normalization)[i]

CandidateCount ==
    IF ClientPath THEN Len(combined) ELSE Min2(Len(table), opts.topK * 2)

C16_ZeroWeights ==
    (Succeeded /\ opts.method = "hybridSearch" /\ hq.st # "null" /\ vq.st # "null" /\ lq.st # "null"
       /\ opts.alpha = 0 /\ opts.beta = 0) =>
        /\ \A i \in 1..Len(result.data) : result.data[i].hybrid_score = 0
        /\ opts.threshold = 0 => Len(result.data) = Min2(CandidateCount, opts.topK)
        /\ opts.threshold > 0 => result.data = <<>>

\* C17: when every query of a hybridSearch call is answered without rows
\* (an empty list or null data, and no error), the call returns an empty
\* list with error null, under every normalization.
NoRows(q) == q.st \in {"ok", "null"} /\ q.data = <<>>

C17_EmptyIsNotAnError ==
    (pc = "done" /\ opts.method = "hybridSearch"
       /\ IF usesStore(opts) THEN NoRows(hq) ELSE NoRows(vq) /\ NoRows(lq)) =>
        /\ result.kind = "returned"
        /\ result.hasData
        /\ result.data = <<>>
        /\ result.error = NoError

\* C17 witness: a z-score call over a table that has rows, answered with
\* null data by the vector query and with an empty list by the lexical one
C17_Witness ==
    /\ pc = "done" /\ opts.method = "hybridSearch" /\ opts.normalization = "z-score"
    /\ Len(table) > 0
    /\ vq.st = "null" /\ lq.st = "ok" /\ lq.data = <<>>
    /\ result.kind = "returned" /\ result.hasData /\ result.data = <<>>

\* C18 as stated: fusion monotonicity.  Take a client-side call and a second call
\* with the same candidates, the same alpha and a larger beta.  A candidate
\* whose normalized vector score is above its normalized lexical score and
\* that is ranked ahead of a candidate with the reverse relation in the
\* first call is ranked ahead of it in the second.  The rank is the place in
\* the list sorted by hybrid score.
LargerBetas == {b \in {FromRatio(1, 10), FromRatio(7, 10), One} : b > opts.beta}

Ranking(beta) ==
    sortDesc(hybridResultsOf(combined, opts.alpha, beta, opts.normalization))

VectorLeaning(c) ==
    normalizedVectorScoresOf(combined, opts.normalization)[c]
        > normalizedBm25ScoresOf(combined, opts.normalization)[c]

LexicalLeaning(c) ==
    normalizedVectorScoresOf(combined, opts.normalization)[c]
        < normalizedBm25ScoresOf(combined, opts.normalization)[c]

\* every pair (a ahead of b) of the first ranking, a leaning to the vector
\* side and b to the lexical side, is in the same order in the second
KeepsLeaningPairs(first, second) ==
    \A i, j \in 1..Len(first) :
        (i < j /\ VectorLeaning(MergeIndex(first[i].row_data))
               /\ LexicalLeaning(MergeIndex(first[j].row_data)))
            => \E k, l \in 1..Len(second) :
                 k < l /\ second[k].row_data = first[i].row_data
                       /\ second[l].row_data = first[j].row_data

C18_FusionMonotone ==
    (Succeeded /\ ClientPath) =>
        \A beta \in LargerBetas : KeepsLeaningPairs(Ranking(opts.beta), Ranking(beta))

\* C18 amended: fusion monotonicity holds when the first call's weights are
\* not both 0.  With alpha > 0 or beta > 0, a candidate that leans to the
\* vector side and is ranked ahead of a candidate that leans to the lexical
\* side stays ahead of it under every larger beta.
C18_FusionMonotoneWeighted ==
    (Succeeded /\ ClientPath /\ (opts.alpha > 0 \/ opts.beta > 0)) =>
        \A beta \in LargerBetas : KeepsLeaningPairs(Ranking(opts.beta), Ranking(beta))

\* C18 witness: a z-score call with alpha > 0 and beta = 0 that ranks a
\* vector-leaning candidate ahead of a lexical-leaning one, and a larger
\* beta under which the ranking is another one
C18_Witness ==
    /\ Succeeded /\ ClientPath /\ opts.normalization = "z-score"
    /\ opts.alpha > 0 /\ opts.beta = 0
    /\ Len(combined) = 3
    /\ \E i, j \in 1..3 :
          /\ i < j
          /\ VectorLeaning(MergeIndex(Ranking(opts.beta)[i].row_data))
          /\ LexicalLeaning(MergeIndex(Ranking(opts.beta)[j].row_data))
    /\ \E beta \in LargerBetas :
          [i \in 1..3 |-> Ranking(beta)[i].row_data] # [i \in 1..3 |-> Ranking(opts.beta)[i].row_data]

\* C19: in the dual-query path the hits are merged only after both queries
\* have completed, and when the call has returned no query of the call is
\* still in flight.
DualPath == Len(rpcLog) = 2

C19_NoQueryInFlightAtReturn ==
    (pc = "done" /\ DualPath) =>
        /\ vq.st # "inflight" /\ lq.st # "inflight"
        /\ result.hasData => vq.st \in {"ok", "null"} /\ lq.st \in {"ok", "null"}

\* C20: in the dual-query path, when both queries have failed the error the
\* call returned is the error of the query that failed first.
ErrorsOf(fn) == {StoreMessages[fn], RejectReasons[fn]}

C20_FirstFailureReturned ==
    (pc = "done" /\ DualPath /\ Failure(vq) /\ Failure(lq)) =>
        /\ firstFailed = "vector" => result.error \in ErrorsOf("semantic_search")
        /\ firstFailed = "lexical" => result.error \in ErrorsOf("fulltext_search")

\* ------------------------------------------------------------- AIClient
\* A second specification: calls of AIClient.embed and AIClient.batchEmbed,
\* and of hybridSearch as far as it depends on the embedding, running
\* concurrently on one instance, with switchProvider and addFallbackProvider
\* called in between.  A text is known by its position in the input, an
\* embedding by its text and the provider that computed it.

\* a hybrid search nobody runs
SearchIdle ==
    /\ table = <<>>
    /\ pc = "idle"
    /\ opts = NoOpts
    /\ embedSt = "none"
    /\ rpcLog = <<>>
    /\ hq = NoQuery
    /\ vq = NoQuery
    /\ lq = NoQuery
    /\ combined = <<>>
    /\ result = Pending
    /\ firstFailed = "none"
    /\ ns = NoNorm

GatewayOps == {"hybridSearch", "embed", "batchEmbed"}

\* the EmbeddingProviderError a provider's embed / batchEmbed throws
errorOf(op, p) ==
    IF op = "batchEmbed"
    THEN [openai |-> "OpenAI batch embedding failed",
          cohere |-> "Cohere batch embedding failed"][p]
    ELSE [openai |-> "OpenAI embedding failed", cohere |-> "Cohere embedding failed"][p]

\* !this.config.enableFallback
Truthy(v) == v = "true"

\* [this.primaryProvider, ...this.fallbackProviders]
providerChain == <<primaryProvider>> \o fallbackProviders

\* the number of API requests of one provider for n texts: one, or one per
\* chunk when texts.length > maxBatchSize
requestCount(op, n) ==
    IF op = "batchEmbed" /\ n > MaxBatchSize
    THEN (n + MaxBatchSize - 1) \div MaxBatchSize
    ELSE 1

\* texts.slice(i, i + maxBatchSize) of the k-th request: the positions of its texts
textsOf(op, n, k) ==
    IF requestCount(op, n) = 1 THEN [j \in 1..n |-> j]
    ELSE [j \in 1..(Min2(k * MaxBatchSize, n) - (k - 1) * MaxBatchSize) |->
            (k - 1) * MaxBatchSize + j]

newRequests(op, n) == [k \in 1..requestCount(op, n) |-> "inflight"]

\* promiseAll that waits for every request and keeps the fulfilled ones
promiseAllSettled(requests) ==
    IF \E k \in 1..Len(requests) : requests[k] = "inflight" THEN "pending" ELSE "resolved"

\* Promise.all over the requests of one provider (a single request is its
\* own promise)
promiseAll(requests) ==
    IF \E k \in 1..Len(requests) : requests[k] = "failed" THEN "rejected"
    ELSE IF \A k \in 1..Len(requests) : requests[k] = "ok" THEN "resolved"
    ELSE "pending"

\* results.flatMap(result => result.embeddings)
RECURSIVE allEmbeddings(_, _, _, _, _)
allEmbeddings(op, n, p, requests, k) ==
    IF k = 0 THEN <<>>
    ELSE allEmbeddings(op, n, p, requests, k - 1) \o
         (IF requests[k] = "ok"
          THEN [j \in 1..Len(textsOf(op, n, k)) |-> [text |-> textsOf(op, n, k)[j], provider |-> p]]
          ELSE <<>>)

\* providerAt that reads the instance's providers at each turn of the loop
providerAtLive(call) == providerChain[Min2(call.i, Len(providerChain))]

\* providers[i] of the loop in embed / batchEmbed
providerAt(call) == call.providers[call.i]

\* a promise of embed / batchEmbed resolved with value, rejected with error
Resolve(value) == [kind |-> "returned", hasData |-> TRUE, data |-> value, error |-> NoError]
Throw(error) == [kind |-> "threw", hasData |-> FALSE, data |-> <<>>, error |-> error]

\* Catch that replaces the error by a new one
CatchReplaced(thrown) == ReturnError(UnknownError)

\* the catch block of hybridSearch, lines 945-950
SearchCatch(thrown) == Catch(thrown)

\* the provider's promise resolved: return await provider.embed(text)
providerResolved(call, requests) ==
    IF call.op = "hybridSearch"
    THEN [call EXCEPT !.requests = requests,
                      !.tried = Append(call.tried, [provider |-> providerAt(call), ok |-> TRUE]),
                      !.embedding = allEmbeddings(call.op, call.texts, providerAt(call),
                                                  requests, Len(requests)),
                      !.pc = "store"]
    ELSE [call EXCEPT !.requests = requests,
                      !.tried = Append(call.tried, [provider |-> providerAt(call), ok |-> TRUE]),
                      !.out = Resolve(allEmbeddings(call.op, call.texts, providerAt(call),
                                                    requests, Len(requests))),
                      !.pc = "done"]

\* providerRejected of a loop that gives up at the first failure
providerRejectedNoFallback(call, requests, enableFallback) ==
    [call EXCEPT !.requests = requests,
                 !.tried = Append(call.tried, [provider |-> providerAt(call), ok |-> FALSE]),
                 !.out = IF call.op = "hybridSearch"
                         THEN SearchCatch(errorOf(call.op, providerAt(call)))
                         ELSE Throw(errorOf(call.op, providerAt(call))),
                 !.pc = "done"]

\* providerRejected of a loop that goes on to the fallbacks whatever
\* enableFallback says
providerRejectedAlwaysFallback(call, requests, enableFallback) ==
    IF call.i = Len(call.providers)
    THEN [call EXCEPT !.requests = requests,
                      !.tried = Append(call.tried, [provider |-> providerAt(call), ok |-> FALSE]),
                      !.out = IF call.op = "hybridSearch"
                              THEN SearchCatch(errorOf(call.op, providerAt(call)))
                              ELSE Throw(errorOf(call.op, providerAt(call))),
                      !.pc = "done"]
    ELSE [call EXCEPT !.requests = newRequests(call.op, call.texts),
                      !.tried = Append(call.tried, [provider |-> providerAt(call), ok |-> FALSE]),
                      !.i = call.i + 1]

\* the provider's promise rejected: the catch block of the loop, lines 81-90
providerRejected(call, requests, enableFallback) ==
    IF ~Truthy(enableFallback) \/ call.i = Len(call.providers)
    THEN [call EXCEPT !.requests = requests,
                      !.tried = Append(call.tried, [provider |-> providerAt(call), ok |-> FALSE]),
                      !.out = IF call.op = "hybridSearch"
                              THEN SearchCatch(errorOf(call.op, providerAt(call)))
                              ELSE Throw(errorOf(call.op, providerAt(call))),
                      !.pc = "done"]
    ELSE [call EXCEPT !.requests = newRequests(call.op, call.texts),
                      !.tried = Append(call.tried, [provider |-> providerAt(call), ok |-> FALSE]),
                      !.i = call.i + 1]

\* a request of the current provider is answered
answered(call, requests, enableFallback) ==
    IF promiseAll(requests) = "pending" THEN [call EXCEPT !.requests = requests]
    ELSE IF promiseAll(requests) = "resolved" THEN providerResolved(call, requests)
    ELSE providerRejected(call, requests, enableFallback)

GatewayInit ==
    /\ SearchIdle
    /\ WorkerIdle
    /\ primaryProvider \in Providers
    /\ fallbackProviders \in UNION {[1..n -> Providers] : n \in 0..MaxFallbacks}
    /\ config \in [enableFallback : EnableFallbackValues]
    /\ calls = [c \in CallIds |-> NoCall]

\* embed(text), batchEmbed(texts) or hybridSearch(...) is called: the list
\* of providers is built and the first provider is asked
GatewayCall(c) ==
    /\ calls[c].pc = "idle"
    /\ \E op \in GatewayOps, n \in 1..MaxTexts :
          /\ op # "batchEmbed" => n = 1
          /\ calls' = [calls EXCEPT ![c] =
                 [NoCall EXCEPT !.op = op, !.pc = "provider", !.texts = n,
                                !.providers = providerChain, !.i = 1,
                                !.requests = newRequests(op, n), !.embeds = 1]]
    /\ UNCHANGED <<searchVars, workerVars, primaryProvider, fallbackProviders, config>>

\* the embedding API answers a request of the provider with embeddings
RequestOk(c) ==
    /\ calls[c].pc = "provider"
    /\ \E k \in 1..Len(calls[c].requests) :
          /\ calls[c].requests[k] = "inflight"
          /\ calls' = [calls EXCEPT ![c] =
                 answered(calls[c], [calls[c].requests EXCEPT ![k] = "ok"], config.enableFallback)]
    /\ UNCHANGED <<searchVars, workerVars, primaryProvider, fallbackProviders, config>>

\* the request fails: the provider throws an EmbeddingProviderError
RequestFail(c) ==
    /\ calls[c].pc = "provider"
    /\ \E k \in 1..Len(calls[c].requests) :
          /\ calls[c].requests[k] = "inflight"
          /\ calls' = [calls EXCEPT ![c] =
                 answered(calls[c], [calls[c].requests EXCEPT ![k] = "failed"], config.enableFallback)]
    /\ UNCHANGED <<searchVars, workerVars, primaryProvider, fallbackProviders, config>>

\* hybridSearch after the embedding: the store answers with rows, which
\* depend on the query embedding
SearchStoreOk(c) ==
    /\ calls[c].pc = "store"
    /\ calls' = [calls EXCEPT ![c].out = ReturnData(calls[c].embedding), ![c].pc = "done"]
    /\ UNCHANGED <<searchVars, workerVars, primaryProvider, fallbackProviders, config>>

\* the store answers with { error }
SearchStoreError(c) ==
    /\ calls[c].pc = "store"
    /\ calls' = [calls EXCEPT ![c].out = ReturnError(StoreMessages["hybrid_search"]),
                              ![c].pc = "done"]
    /\ UNCHANGED <<searchVars, workerVars, primaryProvider, fallbackProviders, config>>

\* switchProvider(newConfig)
switchProvider(p) ==
    /\ primaryProvider' = p
    /\ UNCHANGED <<searchVars, workerVars, fallbackProviders, config, calls>>

\* addFallbackProvider(config)
addFallbackProvider(p) ==
    /\ Len(fallbackProviders) < MaxFallbacks
    /\ fallbackProviders' = Append(fallbackProviders, p)
    /\ UNCHANGED <<searchVars, workerVars, primaryProvider, config, calls>>

GatewayNext ==
    \/ \E c \in CallIds : GatewayCall(c)
    \/ \E c \in CallIds : RequestOk(c)
    \/ \E c \in CallIds : RequestFail(c)
    \/ \E c \in CallIds : SearchStoreOk(c)
    \/ \E c \in CallIds : SearchStoreError(c)
    \/ \E p \in Providers : switchProvider(p)
    \/ \E p \in Providers : addFallbackProvider(p)

GatewaySpec == GatewayInit /\ [][GatewayNext]_vars

\* C25: a successful hybridSearchDocuments call with normalization 'z-score'
\* or 'none' returns a list the client-side computation yields with that
\* normalization over the same rows and options (what hybridSearch returns
\* with that option), not the list of the store's own scaling.
C25_DocumentsNormalization ==
    (Succeeded /\ opts.method = "hybridSearchDocuments"
       /\ opts.normalization \in {"z-score", "none"}) =>
        result.data \in ClientSideResults(table, opts)

Finished(c) == calls[c].pc = "done"
LastTried(c) == calls[c].tried[Len(calls[c].tried)]

\* the providers were asked in the order of the list built at the call, each
\* one only after the one before it had failed
InListOrder(c) ==
    /\ Len(calls[c].tried) <= Len(calls[c].providers)
    /\ \A k \in 1..Len(calls[c].tried) :
          /\ calls[c].tried[k].provider = calls[c].providers[k]
          /\ k < Len(calls[c].tried) => ~calls[c].tried[k].ok

\* what embed returned is the embedding of the provider asked last, which
\* succeeded
FirstSuccessReturned(c) ==
    (Finished(c) /\ calls[c].out.kind = "returned") =>
        /\ LastTried(c).ok
        /\ calls[c].out.data = <<[text |-> 1, provider |-> LastTried(c).provider]>>

AllProvidersFailed(c) ==
    /\ Len(calls[c].tried) = Len(calls[c].providers)
    /\ \A k \in 1..Len(calls[c].tried) : ~calls[c].tried[k].ok

\* C22 as stated: AIClient.embed asks the primary provider and then the
\* fallback providers in list order, each only after the one before failed,
\* returns the result of the first that succeeds, and fails only when every
\* configured provider has failed.
C22_FallbackOrder ==
    \A c \in CallIds : calls[c].op = "embed" =>
        /\ InListOrder(c)
        /\ FirstSuccessReturned(c)
        /\ (Finished(c) /\ calls[c].out.kind = "threw") => AllProvidersFailed(c)

\* C22, amended: the same, where embed fails only when every configured
\* provider has failed provided enableFallback is true.
C22_FallbackOrderEnabled ==
    \A c \in CallIds : calls[c].op = "embed" =>
        /\ InListOrder(c)
        /\ FirstSuccessReturned(c)
        /\ (Finished(c) /\ calls[c].out.kind = "threw" /\ Truthy(config.enableFallback))
              => AllProvidersFailed(c)

\* embed returned the embedding of the second fallback after the primary
\* provider and the first fallback had failed
C22_Witness ==
    \E c \in CallIds :
        /\ calls[c].op = "embed"
        /\ Finished(c)
        /\ calls[c].out.kind = "returned"
        /\ Len(calls[c].tried) = 3

\* C23: a result of AIClient.batchEmbed holds one embedding per input text,
\* in input order, all of the provider asked last, every request (chunk) of
\* which succeeded over the whole batch; a provider with a failed chunk
\* contributes nothing.
C23_SingleProviderBatch ==
    \A c \in CallIds :
        (calls[c].op = "batchEmbed" /\ Finished(c) /\ calls[c].out.kind = "returned") =>
            /\ LastTried(c).ok
            /\ Len(calls[c].requests) = requestCount("batchEmbed", calls[c].texts)
            /\ \A k \in 1..Len(calls[c].requests) : calls[c].requests[k] = "ok"
            /\ calls[c].out.data =
                 [j \in 1..calls[c].texts |-> [text |-> j, provider |-> LastTried(c).provider]]

\* a chunked batch that a fallback provider embedded after a chunk of the
\* primary provider had failed
C23_Witness ==
    \E c \in CallIds :
        /\ calls[c].op = "batchEmbed"
        /\ Finished(c)
        /\ calls[c].out.kind = "returned"
        /\ calls[c].texts > MaxBatchSize
        /\ Len(calls[c].tried) = 2
        /\ calls[c].providers[1] # calls[c].providers[2]

\* C30: with enableFallback false or unset, embed and batchEmbed ask the
\* primary provider only, and when it fails they throw its error as it is.
C30_NoFallbackWhenDisabled ==
    \A c \in CallIds :
        (calls[c].op \in {"embed", "batchEmbed"} /\ ~Truthy(config.enableFallback)) =>
            /\ Len(calls[c].tried) <= 1
            /\ \A k \in 1..Len(calls[c].tried) : calls[c].tried[k].provider = calls[c].providers[1]
            /\ (Finished(c) /\ ~LastTried(c).ok) =>
                  calls[c].out = Throw(errorOf(calls[c].op, calls[c].providers[1]))

\* the primary provider failed with fallback providers configured and
\* enableFallback unset
C30_Witness ==
    \E c \in CallIds :
        /\ calls[c].op \in {"embed", "batchEmbed"}
        /\ config.enableFallback = "undefined"
        /\ Len(calls[c].providers) > 1
        /\ Finished(c)
        /\ calls[c].out.kind = "threw"

\* what AIClient.embed does when nothing else runs: the outcome of asking
\* the providers of chain from the k-th on, where the j-th provider asked
\* answers as answers[j]
RECURSIVE embedAlone(_, _, _, _)
embedAlone(chain, enableFallback, answers, k) ==
    IF k > Len(answers) THEN [ok |-> FALSE, provider |-> "none"]
    ELSE IF answers[k] THEN [ok |-> TRUE, provider |-> chain[k]]
    ELSE IF ~Truthy(enableFallback) \/ k = Len(chain) THEN [ok |-> FALSE, provider |-> chain[k]]
    ELSE embedAlone(chain, enableFallback, answers, k + 1)

\* what hybridSearch returns when nothing else runs
hybridSearchAlone(embedded, storeFailed) ==
    IF ~embedded.ok THEN ReturnError(errorOf("hybridSearch", embedded.provider))
    ELSE IF storeFailed THEN ReturnError(StoreMessages["hybrid_search"])
    ELSE ReturnData(<<[text |-> 1, provider |-> embedded.provider]>>)

\* C21: a hybridSearch call that runs interleaved with other calls and with
\* switchProvider / addFallbackProvider returns what it returns alone with
\* the provider list of the moment it was called and the same answers of
\* the providers and the store.
C21_NoInterference ==
    \A c \in CallIds :
        (calls[c].op = "hybridSearch" /\ Finished(c)) =>
            /\ InListOrder(c)
            /\ calls[c].out =
                 hybridSearchAlone(
                     embedAlone(calls[c].providers, config.enableFallback,
                                [k \in 1..Len(calls[c].tried) |-> calls[c].tried[k].ok], 1),
                     calls[c].out.error = StoreMessages["hybrid_search"])

\* a hybridSearch call that used a fallback provider and returned rows
\* after the primary provider and the fallback list had been changed and
\* while another call was running
C21_Witness ==
    \E c \in CallIds, d \in CallIds :
        /\ c # d
        /\ calls[c].op = "hybridSearch"
        /\ Finished(c)
        /\ calls[c].out.hasData
        /\ Len(calls[c].tried) = 2
        /\ providerChain # calls[c].providers
        /\ primaryProvider # calls[c].providers[1]
        /\ calls[d].pc \in {"provider", "store"}

\* C24: when the embedding gateway fails, hybridSearch returns the error the
\* gateway threw, unchanged, with data null, after a single call of embed.
C24_EmbedErrorVerbatim ==
    \A c \in CallIds :
        (calls[c].op = "hybridSearch" /\ Finished(c) /\ ~LastTried(c).ok) =>
            /\ calls[c].out = ReturnError(errorOf("hybridSearch", LastTried(c).provider))
            /\ calls[c].embeds = 1

\* hybridSearch returned the error of the last fallback provider
C24_Witness ==
    \E c \in CallIds :
        /\ calls[c].op = "hybridSearch"
        /\ Finished(c)
        /\ ~LastTried(c).ok
        /\ Len(calls[c].tried) > 1
        /\ ~calls[c].out.hasData


\* ---------------------------------------------------------------------
\* The embedding job queue and the embed-worker edge function
\* ---------------------------------------------------------------------

\* an error message is the sequence of its characters
letters ==
    [ upper |->
        << "A", "B", "C", "D", "E", "F", "G", "H", "I", "J", "K", "L",
           "M", "N", "O", "P", "Q", "R", "S", "T", "U", "V", "W", "X",
           "Y", "Z" >>,
      lower |->
        << "a", "b", "c", "d", "e", "f", "g", "h", "i", "j", "k", "l",
           "m", "n", "o", "p", "q", "r", "s", "t", "u", "v", "w", "x",
           "y", "z" >> ]

\* String.prototype.toLowerCase
toLowerCase(message) ==
    [i \in 1..Len(message) |->
        IF \E k \in 1..Len(letters.upper) : letters.upper[k] = message[i]
        THEN letters.lower[CHOOSE k \in 1..Len(letters.upper) : letters.upper[k] = message[i]]
        ELSE message[i]]

\* String.prototype.includes
includes(message, part) ==
    \E i \in 0..(Len(message) - Len(part)) :
        SubSeq(message, i + 1, i + Len(part)) = part

\* the messages of the errors processEmbeddingJob catches: the text is
\* missing, not a string, empty or blank; the text is longer than
\* MaxTextLength; the API answered without an embedding; the response of the
\* API was not ok (followed by the status); the row update returned an error
\* (followed by the message of the database, of which permissionDenied is one)
messages ==
    [ emptyText |->
        << "E", "m", "p", "t", "y", " ", "o", "r", " ", "i", "n", "v",
           "a", "l", "i", "d", " ", "t", "e", "x", "t", " ", "c", "o",
           "n", "t", "e", "n", "t", " ", "p", "r", "o", "v", "i", "d",
           "e", "d" >>,
      textTooLong |->
        << "T", "e", "x", "t", " ", "t", "o", "o", " ", "l", "o", "n",
           "g", " ", "f", "o", "r", " ", "e", "m", "b", "e", "d", "d",
           "i", "n", "g", " ", "(", "m", "a", "x", " ", "5", "0", ",",
           "0", "0", "0", " ", "c", "h", "a", "r", "a", "c", "t", "e",
           "r", "s", ")" >>,
      invalidEmbedding |->
        << "I", "n", "v", "a", "l", "i", "d", " ", "e", "m", "b", "e",
           "d", "d", "i", "n", "g", " ", "g", "e", "n", "e", "r", "a",
           "t", "e", "d", " ", "f", "r", "o", "m", " ", "O", "p", "e",
           "n", "A", "I" >>,
      apiError |->
        << "O", "p", "e", "n", "A", "I", " ", "A", "P", "I", " ", "e",
           "r", "r", "o", "r", ":", " " >>,
      updateError |->
        << "F", "a", "i", "l", "e", "d", " ", "t", "o", " ", "u", "p",
           "d", "a", "t", "e", " ", "r", "o", "w", ":", " " >>,
      permissionDenied |->
        << "p", "e", "r", "m", "i", "s", "s", "i", "o", "n", " ", "d",
           "e", "n", "i", "e", "d", " ", "f", "o", "r", " ", "t", "a",
           "b", "l", "e", " ", "d", "o", "c", "u", "m", "e", "n", "t",
           "s" >> ]

\* the response statuses of the embedding API that are not ok
ApiStatuses == { <<"4", "2", "9">>, <<"4", "0", "1">>, <<"5", "0", "0">>, <<"5", "0", "3">> }

\* the parts of a message categorizeError looks for
patterns ==
    [ api429 |->
        << "o", "p", "e", "n", "a", "i", " ", "a", "p", "i", " ", "e",
           "r", "r", "o", "r", ":", " ", "4", "2", "9" >>,
      api401 |->
        << "o", "p", "e", "n", "a", "i", " ", "a", "p", "i", " ", "e",
           "r", "r", "o", "r", ":", " ", "4", "0", "1" >>,
      api500 |->
        << "o", "p", "e", "n", "a", "i", " ", "a", "p", "i", " ", "e",
           "r", "r", "o", "r", ":", " ", "5", "0", "0" >>,
      api |->
        << "o", "p", "e", "n", "a", "i", " ", "a", "p", "i", " ", "e",
           "r", "r", "o", "r" >>,
      textTooLong |->
        << "t", "e", "x", "t", " ", "t", "o", "o", " ", "l", "o", "n",
           "g" >>,
      tokenLimit |->
        << "t", "o", "k", "e", "n", " ", "l", "i", "m", "i", "t" >>,
      emptyText |->
        << "e", "m", "p", "t", "y", " ", "t", "e", "x", "t" >>,
      noContent |->
        << "n", "o", " ", "c", "o", "n", "t", "e", "n", "t" >>,
      updateRow |->
        << "f", "a", "i", "l", "e", "d", " ", "t", "o", " ", "u", "p",
           "d", "a", "t", "e", " ", "r", "o", "w" >>,
      databaseError |->
        << "d", "a", "t", "a", "b", "a", "s", "e", " ", "e", "r", "r",
           "o", "r" >>,
      timeout |->
        << "t", "i", "m", "e", "o", "u", "t" >>,
      network |->
        << "n", "e", "t", "w", "o", "r", "k" >> ]

\* the type categorizeError gives a lower-cased message
typeOfMessage(message) ==
    IF includes(message, patterns.api429) THEN "api_rate_limit"
    ELSE IF includes(message, patterns.api401) THEN "api_auth_error"
    ELSE IF includes(message, patterns.api500) THEN "api_server_error"
    ELSE IF includes(message, patterns.api) THEN "api_error"
    ELSE IF includes(message, patterns.textTooLong) \/ includes(message, patterns.tokenLimit)
        THEN "validation_error"
    ELSE IF includes(message, patterns.emptyText) \/ includes(message, patterns.noContent)
        THEN "validation_error"
    ELSE IF includes(message, patterns.updateRow) \/ includes(message, patterns.databaseError)
        THEN "database_error"
    ELSE IF includes(message, patterns.timeout) \/ includes(message, patterns.network)
        THEN "network_error"
    ELSE "unknown_error"

categorizeError(message) == typeOfMessage(toLowerCase(message))

\* errorInfo.type for each message processEmbeddingJob catches
errorTypes ==
    [message \in {messages.emptyText, messages.textTooLong, messages.invalidEmbedding,
                  messages.updateError \o messages.permissionDenied}
                 \cup {messages.apiError \o status : status \in ApiStatuses}
        |-> categorizeError(message)]

\* generateEmbedding when the API answers ok: the embedding is a function of
\* the text and of nothing else
embeddingOf(text) == <<"embedding", text.id>>

\* the error the validation of the validating worker throws, <<>> when the
\* text passes
validationError(new_text) ==
    IF new_text.type # "string" \/ new_text.length = 0 \/ new_text.trimLength = 0
    THEN messages.emptyText
    ELSE IF new_text.length > MaxTextLength THEN messages.textTooLong
    ELSE <<>>

\* pgmq.send: the message gets the next id and is visible at once
pgmq_send(q, msg_id, row_id, new_text, retry_of_msg_id) ==
    q \cup { [msg_id |-> msg_id, row_id |-> row_id, new_text |-> new_text,
              retry_of_msg_id |-> retry_of_msg_id, visible |-> TRUE] }

\* pgmq.delete
pgmq_delete(q, msg_id) == { m \in q : m.msg_id # msg_id }

\* pgmq.read with qty 1: the visible message of the least id, if any
readable(q) == { m \in q : m.visible /\ \A o \in q : o.visible => m.msg_id <= o.msg_id }

\* the new_text of the payload the trigger builds; it is created without
\* arguments, so the column is always 'content'
triggerText(column_name, content) == IF column_name = "content" THEN content ELSE Undefined

\* log_job_start: insert ... on conflict (msg_id) do update
log_job_start(log, msg_id, row_id) ==
    IF \E l \in log : l.msg_id = msg_id
    THEN { IF l.msg_id = msg_id THEN [l EXCEPT !.status = "processing"] ELSE l : l \in log }
    ELSE log \cup { [msg_id |-> msg_id, row_id |-> row_id, status |-> "processing",
                     error_type |-> "null", retry_count |-> 0] }

\* log_job_completion: update ... where msg_id = p_msg_id, insert if not found
log_job_completion(log, msg_id, status, error_type) ==
    IF \E l \in log : l.msg_id = msg_id
    THEN { IF l.msg_id = msg_id
           THEN [l EXCEPT !.status = status, !.error_type = error_type]
           ELSE l : l \in log }
    ELSE log \cup { [msg_id |-> msg_id, row_id |-> 0, status |-> status,
                     error_type |-> error_type, retry_count |-> 0] }

\* the rows of the job log retry_failed_jobs selects
eligible(log, q) ==
    { l \in log : /\ l.status = "failed"
                  /\ l.retry_count < max_retries
                  /\ ~\E m \in q : m.row_id = l.row_id }

\* the rows of a set of log rows in the order of their msg_id
RECURSIVE inOrder(_)
inOrder(rows) ==
    IF rows = {} THEN <<>>
    ELSE LET first == CHOOSE l \in rows : \A o \in rows : l.msg_id <= o.msg_id
         IN  <<first>> \o inOrder(rows \ {first})

\* the payload retry_failed_jobs builds for a log row: table, schema, row_id,
\* column, model, retry_of_msg_id, retry_count, and no new_text
retryPayloads(rows, firstId) ==
    { [msg_id |-> firstId + k - 1, row_id |-> rows[k].row_id, new_text |-> Undefined,
       retry_of_msg_id |-> rows[k].msg_id, visible |-> TRUE] :
      k \in 1..Len(rows) }

WorkerInit ==
    /\ SearchIdle
    /\ GatewayIdle
    /\ docs = [d \in DocIds |-> NoDoc]
    /\ queue = {}
    /\ jobLog = {}
    /\ workers = [w \in WorkerIds |-> NoWorker]
    /\ nextMsgId = 1
    /\ deployed \in WorkerVersions

\* insert into documents (content) values (...): the trigger enqueues a job
InsertRow(d, content) ==
    /\ ~docs[d].exists
    /\ nextMsgId <= MaxMsgs
    /\ docs' = [docs EXCEPT ![d] = [exists |-> TRUE, content |-> content,
                                     embedding |-> NoEmbedding]]
    /\ queue' = pgmq_send(queue, nextMsgId, d, triggerText("content", content), 0)
    /\ nextMsgId' = nextMsgId + 1
    /\ UNCHANGED <<searchVars, gatewayVars, jobLog, workers, deployed>>

\* update documents set content = ...: the trigger enqueues a job
UpdateContent(d, content) ==
    /\ docs[d].exists
    /\ nextMsgId <= MaxMsgs
    /\ docs' = [docs EXCEPT ![d].content = content]
    /\ queue' = pgmq_send(queue, nextMsgId, d, triggerText("content", content), 0)
    /\ nextMsgId' = nextMsgId + 1
    /\ UNCHANGED <<searchVars, gatewayVars, jobLog, workers, deployed>>

\* the edge function is invoked and reads the queue: one job, or none (then
\* it answers at once, as it does when the read fails, and nothing changes)
Invoke(w) ==
    /\ workers[w].pc = "idle"
    /\ IF readable(queue) = {}
       THEN UNCHANGED <<queue, workers>>
       ELSE \E m \in readable(queue) :
            /\ queue' = (queue \ {m}) \cup {[m EXCEPT !.visible = FALSE]}
            /\ workers' = [workers EXCEPT ![w] =
                  [pc |-> "read",
                   job |-> [msg_id |-> m.msg_id, row_id |-> m.row_id, new_text |-> m.new_text],
                   embedding |-> NoEmbedding]]
    /\ UNCHANGED <<searchVars, gatewayVars, docs, jobLog, nextMsgId, deployed>>

\* a catch block that deletes the job whatever the error
deletesOnFailureAlways(type) == TRUE

\* the catch block of the validating worker deletes the job after a
\* validation error
deletesOnFailure(type) == type = "validation_error"

\* the catch block of processEmbeddingJob for an error of the given type.
\* The basic worker logs to the console and answers as if the job were
\* processed; the validating worker writes the job log, deletes the job
\* when the error is a validation error, and rethrows (status 500)
catchError(w, type) ==
    IF deployed = "basic"
    THEN /\ workers' = [workers EXCEPT ![w] = NoWorker]
         /\ UNCHANGED <<queue, jobLog>>
    ELSE /\ jobLog' = log_job_completion(jobLog, workers[w].job.msg_id, "failed", type)
         /\ queue' = IF deletesOnFailure(type)
                     THEN pgmq_delete(queue, workers[w].job.msg_id)
                     ELSE queue
         /\ workers' = [workers EXCEPT ![w] = NoWorker]

\* processEmbeddingJob up to the request to the embedding API: the
\* validating worker logs the start and validates the text
Start(w) ==
    /\ workers[w].pc = "read"
    /\ IF deployed = "basic"
       THEN /\ workers' = [workers EXCEPT ![w].pc = "embedding"]
            /\ UNCHANGED <<queue, jobLog>>
       ELSE IF validationError(workers[w].job.new_text) = <<>>
       THEN /\ jobLog' = log_job_start(jobLog, workers[w].job.msg_id, workers[w].job.row_id)
            /\ workers' = [workers EXCEPT ![w].pc = "embedding"]
            /\ UNCHANGED queue
       ELSE \E type \in {errorTypes[validationError(workers[w].job.new_text)]} :
            /\ jobLog' = log_job_completion(
                   log_job_start(jobLog, workers[w].job.msg_id, workers[w].job.row_id),
                   workers[w].job.msg_id, "failed", type)
            /\ queue' = IF deletesOnFailure(type)
                        THEN pgmq_delete(queue, workers[w].job.msg_id)
                        ELSE queue
            /\ workers' = [workers EXCEPT ![w] = NoWorker]
    /\ UNCHANGED <<searchVars, gatewayVars, docs, nextMsgId, deployed>>

\* the embedding API answers ok, which it does to a non-empty string only
EmbedOk(w) ==
    /\ workers[w].pc = "embedding"
    /\ workers[w].job.new_text.type = "string"
    /\ workers[w].job.new_text.length > 0
    /\ workers' = [workers EXCEPT ![w].pc = "updating",
                                  ![w].embedding = embeddingOf(workers[w].job.new_text)]
    /\ UNCHANGED <<searchVars, gatewayVars, docs, queue, jobLog, nextMsgId, deployed>>

\* the embedding API answers with a status that is not ok
EmbedFail(w, status) ==
    /\ workers[w].pc = "embedding"
    /\ catchError(w, errorTypes[messages.apiError \o status])
    /\ UNCHANGED <<searchVars, gatewayVars, docs, nextMsgId, deployed>>

\* the embedding API answers ok without an embedding
EmbedInvalid(w) ==
    /\ workers[w].pc = "embedding"
    /\ catchError(w, errorTypes[messages.invalidEmbedding])
    /\ UNCHANGED <<searchVars, gatewayVars, docs, nextMsgId, deployed>>

\* the row update succeeds
UpdateOk(w) ==
    /\ workers[w].pc = "updating"
    /\ docs' = [docs EXCEPT ![workers[w].job.row_id].embedding = workers[w].embedding]
    /\ workers' = [workers EXCEPT ![w].pc = "deleting"]
    /\ UNCHANGED <<searchVars, gatewayVars, queue, jobLog, nextMsgId, deployed>>

\* the row update returns an error
UpdateFail(w) ==
    /\ workers[w].pc = "updating"
    /\ catchError(w, errorTypes[messages.updateError \o messages.permissionDenied])
    /\ UNCHANGED <<searchVars, gatewayVars, docs, nextMsgId, deployed>>

\* pgmq_delete after the update, which may fail and is then only logged;
\* the validating worker logs the completion
Delete(w, deleted) ==
    /\ workers[w].pc = "deleting"
    /\ queue' = IF deleted THEN pgmq_delete(queue, workers[w].job.msg_id) ELSE queue
    /\ jobLog' = IF deployed = "basic" THEN jobLog
                 ELSE log_job_completion(jobLog, workers[w].job.msg_id, "completed", "null")
    /\ workers' = [workers EXCEPT ![w] = NoWorker]
    /\ UNCHANGED <<searchVars, gatewayVars, docs, nextMsgId, deployed>>

\* the visibility timeout of a message that was read has passed
VisibilityTimeout(msg_id) ==
    /\ \E m \in queue :
        /\ m.msg_id = msg_id
        /\ ~m.visible
        /\ queue' = (queue \ {m}) \cup {[m EXCEPT !.visible = TRUE]}
    /\ UNCHANGED <<searchVars, gatewayVars, docs, jobLog, workers, nextMsgId, deployed>>

\* retry_failed_jobs(): every eligible row of the job log is sent again and
\* its retry_count raised
retry_failed_jobs ==
    /\ eligible(jobLog, queue) # {}
    /\ nextMsgId + Cardinality(eligible(jobLog, queue)) - 1 <= MaxMsgs
    /\ \E rows \in {inOrder(eligible(jobLog, queue))} :
        /\ queue' = queue \cup retryPayloads(rows, nextMsgId)
        /\ nextMsgId' = nextMsgId + Len(rows)
        /\ jobLog' = { IF l \in eligible(jobLog, queue)
                       THEN [l EXCEPT !.retry_count = l.retry_count + 1]
                       ELSE l : l \in jobLog }
    /\ UNCHANGED <<searchVars, gatewayVars, docs, workers, deployed>>

WorkerNext ==
    \/ \E d \in DocIds, content \in Contents : InsertRow(d, content)
    \/ \E d \in DocIds, content \in Contents : UpdateContent(d, content)
    \/ \E w \in WorkerIds : Invoke(w)
    \/ \E w \in WorkerIds : Start(w)
    \/ \E w \in WorkerIds : EmbedOk(w)
    \/ \E w \in WorkerIds, status \in ApiStatuses : EmbedFail(w, status)
    \/ \E w \in WorkerIds : EmbedInvalid(w)
    \/ \E w \in WorkerIds : UpdateOk(w)
    \/ \E w \in WorkerIds : UpdateFail(w)
    \/ \E w \in WorkerIds, deleted \in BOOLEAN : Delete(w, deleted)
    \/ \E msg_id \in MsgIds : VisibilityTimeout(msg_id)
    \/ retry_failed_jobs

WorkerSpec == WorkerInit /\ [][WorkerNext]_vars

\* the validating worker, which writes the job log retry_failed_jobs reads
ValidatingInit ==
    /\ WorkerInit
    /\ deployed = "validating"

\* the function is invoked again and again, every request it makes is
\* answered, and a visibility timeout that runs passes
FairWorkerSpec ==
    /\ ValidatingInit
    /\ [][WorkerNext]_vars
    /\ \A w \in WorkerIds : WF_vars(Invoke(w))
    /\ \A w \in WorkerIds : WF_vars(Start(w))
    /\ \A w \in WorkerIds :
          WF_vars(EmbedOk(w) \/ EmbedInvalid(w) \/ \E status \in ApiStatuses : EmbedFail(w, status))
    /\ \A w \in WorkerIds : WF_vars(UpdateOk(w) \/ UpdateFail(w))
    /\ \A w \in WorkerIds : WF_vars(\E deleted \in BOOLEAN : Delete(w, deleted))
    /\ \A msg_id \in MsgIds : WF_vars(VisibilityTimeout(msg_id))

\* ---------------------------------------------------------------------
\* Properties of the queue and the worker
\* ---------------------------------------------------------------------

InQueue(q, msg_id) == \E m \in q : m.msg_id = msg_id

AllJobsDone == queue = {} /\ \A w \in WorkerIds : workers[w].pc = "idle"

\* C26: once every job of a row has been processed and removed from the
\* queue, the stored embedding of the row is the embedding of its latest
\* text (for a text the worker accepts).
C26_EmbeddingsFresh ==
    \A d \in DocIds :
        (docs[d].exists /\ AllJobsDone /\ validationError(docs[d].content) = <<>>) =>
            docs[d].embedding = embeddingOf(docs[d].content)

\* C27: an invocation of the validating worker that ends with a validation
\* failure of its job leaves the job deleted from the queue.
C27_InvalidJobDeleted ==
    [][\A w \in WorkerIds :
          ( /\ deployed = "validating"
            /\ workers[w].pc = "read"
            /\ workers'[w].pc = "idle"
            /\ validationError(workers[w].job.new_text) # <<>> ) =>
                ~InQueue(queue', workers[w].job.msg_id)]_vars

\* the invocation w holds the job and ends in this step
Ends(w, msg_id) == workers[w].job.msg_id = msg_id /\ workers[w].pc # "idle" /\ workers'[w].pc = "idle"

RetryQueued(msg_id) ==
    \E m \in queue : /\ m.msg_id = msg_id
                      /\ m.retry_of_msg_id # 0
                      /\ validationError(docs[m.row_id].content) = <<>>

\* the job is completed: out of the queue, the log entry 'completed', an
\* embedding in the row
Completed(msg_id) ==
    /\ ~InQueue(queue, msg_id)
    /\ \E l \in jobLog : /\ l.msg_id = msg_id
                          /\ l.status = "completed"
                          /\ docs[l.row_id].embedding # NoEmbedding

\* an invocation has sent the text of the job to the embedding API
Requested(msg_id) ==
    \E w \in WorkerIds : workers[w].job.msg_id = msg_id /\ workers[w].pc = "embedding"

\* C29: a job retry_failed_jobs has put on the queue, of a row with a text
\* the worker accepts, is eventually completed, unless a request to the
\* embedding API was made for it (which may then fail, or the row update
\* after it).
C29_RetryCompletes ==
    \A msg_id \in MsgIds : RetryQueued(msg_id) ~> (Completed(msg_id) \/ Requested(msg_id))

====
